---- MODULE Spec2Model ----
(***************************************************************************)
(* A model of the LSM-tree cache engine of src/server/index.js (classes    *)
(* MemTable, SSTable, LSMTree) together with the data directory it keeps   *)
(* on disk (wal.json, metadata.json, sstable_<id>.json).                  *)
(*                                                                         *)
(* Conventions.                                                            *)
(*  - JavaScript null is modelled by NULL (0); real values are positive    *)
(*    and clock readings start at 1, so "falsy" tests such as              *)
(*    `entry.expiresAt && ...` and `ttl ? ... : null` read `x # NULL`.     *)
(*  - A JS Map is a function whose DOMAIN is the set of keys it holds.     *)
(*    Iteration order of a Map is not modelled (no modelled result         *)
(*    depends on it but the order of the listed entries).                  *)
(*  - Date.now() is the variable now; it advances by Tick between engine   *)
(*    operations, an engine operation itself is instantaneous.             *)
(*  - A file-system write either succeeds or throws leaving the file as    *)
(*    it was; which one is chosen by the fault point fp of the operation.  *)
(*  - Spec and SpecIO run every operation from its call to its return, one *)
(*    at a time, and a reopen up to the end of loadFromDisk.  SpecAsync    *)
(*    runs put and delete from await to await, so that calls interleave    *)
(*    as the handlers of the HTTP server let them, and lets the engine be  *)
(*    used while loadFromDisk is still running.                            *)
(***************************************************************************)
EXTENDS Integers, Sequences, FiniteSets, TLC

\* ------------------------------------------------------------------ bounds
\* the number of writing operations of a run, and of file-system failures in it
MaxOps == 3
MaxFaults == 1

\* this.defaultTTL = 60000
defaultTTL == 60000

NULL == 0
\* the keys and the values of the requests
Keys == 1..2
Values == 1..2
\* the ttl argument of put: null/0 (no expiry) or a positive ttl
Ttls == 0..1
\* the readings of Date.now(): with a ttl of 1 an entry put at 1 is before,
\* at and past its expiresAt
Times == 1..3
\* the constructor arguments memTableMaxSize and maxSSTables
MemTableMaxSizes == {1, 2}
MaxSSTablesSettings == {1, 2}

VARIABLES
    memTable,        \* this.memTable.data : Map key -> entry
    ssTables,        \* this.ssTables : sequence of SSTable objects
    walFile,         \* wal.json on disk
    sstFiles,        \* sstable_<id>.json files on disk : id -> file content
    metaFile,        \* metadata.json on disk
    memTableMaxSize, \* this.memTable.maxSize
    maxSSTables,     \* this.maxSSTables
    now,             \* Date.now()
    faults,          \* number of file-system failures so far
    nops,            \* number of engine operations so far
    last,            \* the last writing operation (put, delete, flush, compact,
                     \* shutdown, reopen)
    prev,            \* the writing operation before it
    calls,           \* the put / delete calls suspended at an await
    loading          \* where loadFromDisk of this engine object stands

vars == <<memTable, ssTables, walFile, sstFiles, metaFile, memTableMaxSize,
          maxSSTables, now, faults, nops, last, prev, calls, loading>>

\* what the operations that run from call to return leave alone
asyncVars == <<calls, loading>>

\* ------------------------------------------------------------ JS Map
EmptyMap == [k \in {} |-> NULL]

MapSet(m, k, e) == [x \in (DOMAIN m) \cup {k} |-> IF x = k THEN e ELSE m[x]]

MapDelete(m, k) == [x \in (DOMAIN m) \ {k} |-> m[x]]

\* Array.from(map.entries()) : the [key, entry] pairs of a Map
MapEntries(m) == {<<k, m[k]>> : k \in DOMAIN m}

\* new Map(pairs)
MapFrom(pairs) ==
    [k \in {p[1] : p \in pairs} |-> (CHOOSE p \in pairs : p[1] = k)[2]]

\* the value a lookup yields when there is no entry (JS null)
NoEntry == [value |-> NULL, expiresAt |-> NULL, timestamp |-> NULL]

\* ------------------------------------------------------------ MemTable
\* MemTable.put: the Map after the set
MemTable_put(data, key, value, ttl, t) ==
    LET expiresAt == IF ttl # NULL THEN t + ttl ELSE NULL
    IN  MapSet(data, key, [value |-> value, expiresAt |-> expiresAt, timestamp |-> t])

\* MemTable.put's return value: this.data.size >= this.maxSize
MemTable_full(data, maxSize) == Cardinality(DOMAIN data) >= maxSize

\* the expiry test written with >= for >
Expired_AtExpiresAt(entry, t) == entry.expiresAt # NULL /\ t >= entry.expiresAt

\* the expiry test `entry.expiresAt && Date.now() > entry.expiresAt`
Expired(entry, t) == entry.expiresAt # NULL /\ t > entry.expiresAt

\* MemTable.get: [entry, data] - the entry returned and the Map afterwards
MemTable_get(data, key, t) ==
    IF key \notin DOMAIN data THEN [entry |-> NoEntry, data |-> data]
    ELSE IF Expired(data[key], t)
         THEN [entry |-> NoEntry, data |-> MapDelete(data, key)]
         ELSE [entry |-> data[key], data |-> data]

\* MemTable.getAllEntries: the entries pushed ({key, ...entry}) and the Map
\* after the sweep of the expired ones
MemTable_getAllEntries(data, t) ==
    LET liveKeys == {k \in DOMAIN data : ~Expired(data[k], t)}
    IN  [entries |-> [k \in liveKeys |-> data[k]],
         data    |-> [k \in liveKeys |-> data[k]]]

\* MemTable.toJSON / MemTable.fromJSON
MemTable_toJSON(data) == MapEntries(data)

MemTable_fromJSON(pairs) == MapFrom(pairs)

\* ------------------------------------------------------------- SSTable
\* new SSTable(data) leaving the tombstones out of the copy
NewSSTable_WithoutTombstones(data, t, id) ==
    [data |-> [k \in {x \in DOMAIN data : data[x].value # NULL} |-> data[k]],
     createdAt |-> t, id |-> id]

\* new SSTable(data): copies the Map, stamps createdAt and id
NewSSTable(data, t, id) == [data |-> MapFrom(MapEntries(data)), createdAt |-> t, id |-> id]

\* SSTable.get
SSTable_get(sst, key, t) ==
    IF key \notin DOMAIN sst.data THEN NoEntry
    ELSE IF Expired(sst.data[key], t) THEN NoEntry
         ELSE sst.data[key]

\* SSTable.get removing the expired entry it finds, as MemTable.get does
SSTable_get_data_Sweeping(sst, key, t) ==
    IF key \in DOMAIN sst.data /\ Expired(sst.data[key], t)
    THEN MapDelete(sst.data, key)
    ELSE sst.data

\* SSTable.get: the Map of the SSTable afterwards; an expired entry yields
\* null and stays in the Map
SSTable_get_data(sst, key, t) == sst.data

\* SSTable.getAllEntries: the Map of the SSTable afterwards; the expired
\* entries are not pushed and stay in the Map
SSTable_getAllEntries_data(sst, t) == sst.data

\* SSTable.getAllEntries
SSTable_getAllEntries(sst, t) ==
    LET liveKeys == {k \in DOMAIN sst.data : ~Expired(sst.data[k], t)}
    IN  [k \in liveKeys |-> sst.data[k]]

\* the content SSTable.saveToDisk writes
SSTable_fileContent(sst) ==
    [id |-> sst.id, createdAt |-> sst.createdAt, entries |-> MapEntries(sst.data)]

\* SSTable.loadFromDisk of a parsable file
SSTable_loadFromDisk(content) ==
    [data |-> MapFrom(content.entries), createdAt |-> content.createdAt, id |-> content.id]

\* -------------------------------------------------------- fault points
\* Where, in one engine operation, a file-system call throws:
\*   none    nowhere
\*   wal     the writeFile of saveWAL called by put / delete
\*   sst     the writeFile of saveToDisk called by flush
\*   wal2    the writeFile of saveWAL called by flush
\*   unlink  the n-th unlink of deleteFromDisk called by compact
\*   csst    the writeFile of saveToDisk called by compact
\*   meta    the writeFile of saveMetadata called by shutdown
\*   wal+sst both writeFile calls of one put, of saveWAL and of the
\*           saveToDisk of its flush (a full disk)
NoFault == [at |-> "none", n |-> 0]

FaultPoints ==
    {[at |-> a, n |-> 0] :
        a \in {"none", "wal", "sst", "wal2", "csst", "meta", "wal+sst"}}
    \cup {[at |-> "unlink", n |-> i] : i \in 1..3}

\* ------------------------------------------------------------- LSMTree
\* The engine and its data directory, as one value the methods transform.
\* A method yields [S, err, hit]: the state after it, whether it threw, and
\* whether the fault point was reached.
EngineState ==
    [memTable |-> memTable, ssTables |-> ssTables, wal |-> walFile, files |-> sstFiles]

\* Date.now() + Math.random()...: an identifier no file and no SSTable has
FreshId(S) ==
    LET used == (DOMAIN S.files) \cup {S.ssTables[i].id : i \in 1..Len(S.ssTables)}
    IN  CHOOSE n \in 1..(Cardinality(used) + 1) : n \notin used

\* LSMTree.saveWAL: the error of writeFile is caught and logged
LSMTree_saveWAL(S, ok) ==
    IF ok
    THEN [S EXCEPT !.wal = [exists |-> TRUE, memTable |-> MemTable_toJSON(S.memTable)]]
    ELSE S

\* the test of compact's merge loop without `entry.value !== null`
CompactKeeps_Tombstones(entry, t) == entry.expiresAt = NULL \/ t <= entry.expiresAt

\* the test of compact's merge loop: which entries are copied
CompactKeeps(entry, t) ==
    entry.value # NULL /\ (entry.expiresAt = NULL \/ t <= entry.expiresAt)

\* compact's merge loop over ssTables[1..i], oldest first
RECURSIVE CompactMerge(_, _, _)
CompactMerge(tables, i, t) ==
    IF i = 0 THEN EmptyMap
    ELSE LET m    == CompactMerge(tables, i - 1, t)
             d    == tables[i].data
             kept == {k \in DOMAIN d : CompactKeeps(d[k], t)}
         IN  [k \in (DOMAIN m) \cup kept |-> IF k \in kept THEN d[k] ELSE m[k]]

\* compact without its loop of deleteFromDisk
CompactUnlink_KeepsFiles(tables, files, i, fp) == [files |-> files, err |-> FALSE]

\* compact's loop of deleteFromDisk over ssTables[1..i]: the files left, and
\* whether the unlink that fp names threw (the loop stops there)
RECURSIVE CompactUnlink(_, _, _, _)
CompactUnlink(tables, files, i, fp) ==
    IF i = 0 THEN [files |-> files, err |-> FALSE]
    ELSE LET r  == CompactUnlink(tables, files, i - 1, fp)
             id == tables[i].id
         IN  IF r.err \/ id \notin DOMAIN r.files THEN r
             ELSE IF fp.at = "unlink" /\ fp.n = i THEN [r EXCEPT !.err = TRUE]
             ELSE [r EXCEPT !.files = [x \in (DOMAIN r.files) \ {id} |-> r.files[x]]]

\* LSMTree.compact
LSMTree_compact(S, fp, t) ==
    IF Len(S.ssTables) <= 1 THEN [S |-> S, err |-> FALSE, hit |-> FALSE]
    ELSE
    LET mergedData == CompactMerge(S.ssTables, Len(S.ssTables), t)
        del        == CompactUnlink(S.ssTables, S.files, Len(S.ssTables), fp)
        compacted  == NewSSTable(mergedData, t, FreshId(S))
    IN  IF del.err
        THEN [S |-> [S EXCEPT !.files = del.files], err |-> TRUE, hit |-> TRUE]
        ELSE IF fp.at = "csst"
        THEN [S |-> [S EXCEPT !.files = del.files], err |-> TRUE, hit |-> TRUE]
        ELSE [S |-> [S EXCEPT
                       !.files = [x \in (DOMAIN del.files) \cup {compacted.id} |->
                                     IF x = compacted.id
                                     THEN SSTable_fileContent(compacted)
                                     ELSE del.files[x]],
                       !.ssTables = <<compacted>>],
              err |-> FALSE, hit |-> FALSE]

\* flush when `await ssTable.saveToDisk(...)` throws: the error leaves flush
\* before the push and the clear
SaveToDiskThrows(S) == [S |-> S, err |-> TRUE, hit |-> TRUE]

\* flush's compaction test written with >= for >
TooManySSTables_AtLimit(S, maxTables) == Len(S.ssTables) >= maxTables

\* flush's compaction test `this.ssTables.length > this.maxSSTables`
TooManySSTables(S, maxTables) == Len(S.ssTables) > maxTables

\* flush without its early return
NothingToFlush_Never(S) == FALSE

\* flush's test `this.memTable.size() === 0`
NothingToFlush(S) == Cardinality(DOMAIN S.memTable) = 0

\* LSMTree.flush
LSMTree_flush(S, fp, t, maxTables) ==
    IF NothingToFlush(S) THEN [S |-> S, err |-> FALSE, hit |-> FALSE]
    ELSE
    LET ssTable == NewSSTable(S.memTable, t, FreshId(S))
    IN  IF fp.at = "sst" THEN SaveToDiskThrows(S)
        ELSE
        LET S1 == [S EXCEPT
                     !.files = [x \in (DOMAIN S.files) \cup {ssTable.id} |->
                                   IF x = ssTable.id
                                   THEN SSTable_fileContent(ssTable)
                                   ELSE S.files[x]],
                     !.ssTables = Append(S.ssTables, ssTable),
                     !.memTable = EmptyMap]
            S2 == LSMTree_saveWAL(S1, fp.at # "wal2")
        IN  IF TooManySSTables(S2, maxTables)
            THEN LET c == LSMTree_compact(S2, fp, t)
                 IN  [c EXCEPT !.hit = c.hit \/ fp.at = "wal2"]
            ELSE [S |-> S2, err |-> FALSE, hit |-> fp.at = "wal2"]

\* LSMTree.put
LSMTree_put(S, key, value, ttl, fp, t, maxSize, maxTables) ==
    LET data == MemTable_put(S.memTable, key, value, ttl, t)
        S1   == LSMTree_saveWAL([S EXCEPT !.memTable = data],
                                fp.at \notin {"wal", "wal+sst"})
        fpf  == IF fp.at = "wal+sst" THEN [at |-> "sst", n |-> 0] ELSE fp
    IN  IF MemTable_full(data, maxSize)
        THEN LET f == LSMTree_flush(S1, fpf, t, maxTables)
             IN  [f EXCEPT !.hit = f.hit \/ fp.at = "wal"]
        ELSE [S |-> S1, err |-> FALSE, hit |-> fp.at = "wal"]

\* LSMTree.delete
LSMTree_delete(S, key, fp, t) ==
    LET data == MemTable_put(S.memTable, key, NULL, NULL, t)
    IN  [S   |-> LSMTree_saveWAL([S EXCEPT !.memTable = data], fp.at # "wal"),
         err |-> FALSE, hit |-> fp.at = "wal"]

\* LSMTree.get's loop run from the oldest SSTable to the newest
GetFromSSTables_OldestFirst(tables, i, key, t) ==
    LET hits == {j \in 1..i : SSTable_get(tables[j], key, t) # NoEntry}
    IN  IF hits = {} THEN NoEntry
        ELSE SSTable_get(tables[CHOOSE j \in hits : \A h \in hits : j <= h], key, t)

\* LSMTree.get's loop over ssTables[i], ssTables[i-1], ..., ssTables[1]
RECURSIVE GetFromSSTables(_, _, _, _)
GetFromSSTables(tables, i, key, t) ==
    IF i = 0 THEN NoEntry
    ELSE LET entry == SSTable_get(tables[i], key, t)
         IN  IF entry # NoEntry THEN entry
             ELSE GetFromSSTables(tables, i - 1, key, t)

\* LSMTree.get: [entry, data] - the entry returned (NoEntry for null) and
\* the MemTable's Map afterwards
LSMTree_get(S, key, t) ==
    LET m == MemTable_get(S.memTable, key, t)
    IN  IF m.entry # NoEntry THEN m
        ELSE [entry |-> GetFromSSTables(S.ssTables, Len(S.ssTables), key, t),
              data  |-> m.data]

\* LSMTree.get: this.ssTables afterwards, SSTable.get having been called on
\* the SSTables from the newest down to the first that returns an entry,
\* when the MemTable returned none
SSTablesAfterGet(S, key, t) ==
    LET tables     == S.ssTables
        hits       == {i \in 1..Len(tables) : SSTable_get(tables[i], key, t) # NoEntry}
        visited(i) == /\ MemTable_get(S.memTable, key, t).entry = NoEntry
                      /\ \A h \in hits : i >= h
    IN  [i \in 1..Len(tables) |->
            IF visited(i)
            THEN [tables[i] EXCEPT !.data = SSTable_get_data(tables[i], key, t)]
            ELSE tables[i]]

\* LSMTree.getAllEntries: this.ssTables afterwards, SSTable.getAllEntries
\* having been called on each
SSTablesAfterList(S, t) ==
    [i \in 1..Len(S.ssTables) |->
        [S.ssTables[i] EXCEPT !.data = SSTable_getAllEntries_data(S.ssTables[i], t)]]

\* {key, ...entry}
WithKey(k, entry) ==
    [key |-> k, value |-> entry.value, expiresAt |-> entry.expiresAt,
     timestamp |-> entry.timestamp]

\* LSMTree.getAllEntries' first loop over ssTables[1..i], oldest first
RECURSIVE AllFromSSTables(_, _, _)
AllFromSSTables(tables, i, t) ==
    IF i = 0 THEN EmptyMap
    ELSE LET m == AllFromSSTables(tables, i - 1, t)
             e == SSTable_getAllEntries(tables[i], t)
         IN  [k \in (DOMAIN m) \cup (DOMAIN e) |->
                 IF k \in DOMAIN e THEN WithKey(k, e[k]) ELSE m[k]]

\* LSMTree.getAllEntries: [entries, data] - the array returned (as a set) and
\* the MemTable's Map afterwards
LSMTree_getAllEntries(S, t) ==
    LET fromTables == AllFromSSTables(S.ssTables, Len(S.ssTables), t)
        mem        == MemTable_getAllEntries(S.memTable, t)
        setKeys    == {k \in DOMAIN mem.entries : mem.entries[k].value # NULL}
        delKeys    == {k \in DOMAIN mem.entries : mem.entries[k].value = NULL}
        allEntries == [k \in ((DOMAIN fromTables) \cup setKeys) \ delKeys |->
                          IF k \in setKeys THEN WithKey(k, mem.entries[k])
                          ELSE fromTables[k]]
    IN  [entries |-> {allEntries[k] : k \in DOMAIN allEntries}, data |-> mem.data]

\* LSMTree.saveMetadata: the content written
MetadataContent == [exists |-> TRUE, defaultTTL |-> defaultTTL]

\* the content of a sstable_<id>.json that JSON.parse rejects
Unparsable == [id |-> NULL, createdAt |-> NULL, entries |-> {}]

\* loadFromDisk with SSTable.loadFromDisk's error let through to the catch
\* of LSMTree.loadFromDisk, the unparsable file listed first: none is loaded
LoadableFiles_NoneWhenOneFails(files) ==
    IF \E id \in DOMAIN files : files[id] = Unparsable THEN {} ELSE DOMAIN files

\* the files for which SSTable.loadFromDisk returns an SSTable: it returns
\* null, and the loop of LSMTree.loadFromDisk goes on, when the parse throws
LoadableFiles(files) == {id \in DOMAIN files : files[id] # Unparsable}

\* LSMTree.loadFromDisk, the SSTables part: the files in the order readdir
\* lists them (any order), then the stable sort by createdAt
LoadedSSTables(files) ==
    {s \in [1..Cardinality(LoadableFiles(files)) -> LoadableFiles(files)] :
        /\ \A i, j \in DOMAIN s : i # j => s[i] # s[j]
        /\ \A i, j \in DOMAIN s : i < j => files[s[i]].createdAt <= files[s[j]].createdAt}

\* LSMTree.loadFromDisk, the WAL part
LoadedMemTable(wal) ==
    IF wal.exists THEN MemTable_fromJSON(wal.memTable) ELSE EmptyMap

\* ------------------------------------------------------------- actions
\* What is recorded of a writing operation: its name and arguments, whether
\* it threw (err), the file-system call that failed in it (fault), the clock
\* reading (t) and the number of SSTables (n) when it began.
NoOp ==
    [op |-> "init", key |-> NULL, value |-> NULL, ttl |-> NULL, err |-> FALSE,
     fault |-> NoFault, t |-> NULL, n |-> 0]

Op(name, key, value, ttl, err) ==
    [op |-> name, key |-> key, value |-> value, ttl |-> ttl, err |-> err,
     fault |-> NoFault, t |-> now, n |-> Len(ssTables)]

\* one more engine operation, within the bound on their number
Step(op) ==
    /\ nops < MaxOps
    /\ nops' = nops + 1
    /\ last' = op
    /\ prev' = [op |-> last.op, key |-> last.key]

\* the frame of an engine operation that yields r = [S, err, hit] under the
\* fault point fp
Apply(r, op, fp) ==
    /\ memTable' = r.S.memTable
    /\ ssTables' = r.S.ssTables
    /\ walFile' = r.S.wal
    /\ sstFiles' = r.S.files
    /\ faults' = faults + (IF r.hit THEN 1 ELSE 0)
    /\ Step([op EXCEPT !.err = r.err, !.fault = fp])
    /\ UNCHANGED <<memTableMaxSize, maxSSTables, now, asyncVars>>

\* a fault point may be chosen while the budget lasts, and counts when reached
FaultOk(r, fp) ==
    /\ fp = NoFault \/ faults < MaxFaults
    /\ r.hit <=> fp # NoFault

Init ==
    /\ memTable = EmptyMap
    /\ ssTables = <<>>
    /\ walFile = [exists |-> FALSE, memTable |-> {}]
    /\ sstFiles = EmptyMap
    /\ metaFile = [exists |-> FALSE, defaultTTL |-> NULL]
    /\ memTableMaxSize \in MemTableMaxSizes
    /\ maxSSTables \in MaxSSTablesSettings
    /\ now = 1
    /\ faults = 0
    /\ nops = 0
    /\ last = NoOp
    /\ prev = [op |-> "init", key |-> NULL]
    /\ calls = {}
    /\ loading = "done"

\* Date.now() moves on between two operations
Tick ==
    /\ now + 1 \in Times
    /\ now' = now + 1
    /\ UNCHANGED <<memTable, ssTables, walFile, sstFiles, metaFile, memTableMaxSize,
                   maxSSTables, faults, nops, last, prev, asyncVars>>

\* await cache.put(key, value, ttl)
Put(key, value, ttl, fp) ==
    /\ nops < MaxOps
    /\ \E r \in {LSMTree_put(EngineState, key, value, ttl, fp, now,
                            memTableMaxSize, maxSSTables)} :
        /\ FaultOk(r, fp)
        /\ Apply(r, Op("put", key, value, ttl, FALSE), fp)
        /\ UNCHANGED metaFile

\* await cache.delete(key)
Delete(key, fp) ==
    /\ nops < MaxOps
    /\ \E r \in {LSMTree_delete(EngineState, key, fp, now)} :
        /\ FaultOk(r, fp)
        /\ Apply(r, Op("delete", key, NULL, NULL, FALSE), fp)
        /\ UNCHANGED metaFile

\* cache.get(key): its only effect on the engine is MemTable.get's removal of
\* an expired entry
Get(key) ==
    \E g \in {LSMTree_get(EngineState, key, now)} :
        /\ memTable' = g.data
        /\ ssTables' = SSTablesAfterGet(EngineState, key, now)
        /\ UNCHANGED <<walFile, sstFiles, metaFile, memTableMaxSize,
                       maxSSTables, now, faults, nops, last, prev, asyncVars>>

\* cache.getAllEntries(): its only effect on the engine is
\* MemTable.getAllEntries' sweep of the expired entries
List ==
    \E l \in {LSMTree_getAllEntries(EngineState, now)} :
        /\ memTable' = l.data
        /\ ssTables' = SSTablesAfterList(EngineState, now)
        /\ UNCHANGED <<walFile, sstFiles, metaFile, memTableMaxSize,
                       maxSSTables, now, faults, nops, last, prev, asyncVars>>

\* await cache.flush()
Flush(fp) ==
    /\ nops < MaxOps
    /\ \E r \in {LSMTree_flush(EngineState, fp, now, maxSSTables)} :
        /\ FaultOk(r, fp)
        /\ Apply(r, Op("flush", NULL, NULL, NULL, FALSE), fp)
        /\ UNCHANGED metaFile

\* await cache.compact()
Compact(fp) ==
    /\ nops < MaxOps
    /\ \E r \in {LSMTree_compact(EngineState, fp, now)} :
        /\ FaultOk(r, fp)
        /\ Apply(r, Op("compact", NULL, NULL, NULL, FALSE), fp)
        /\ UNCHANGED metaFile

\* await cache.shutdown(): flush, then saveMetadata (its error is caught)
Shutdown(fp) ==
    /\ nops < MaxOps
    /\ \E f \in {LSMTree_flush(EngineState, fp, now, maxSSTables)} :
       \E r \in {[f EXCEPT !.hit = f.hit \/ (fp.at = "meta" /\ ~f.err)]} :
        /\ FaultOk(r, fp)
        /\ Apply(r, Op("shutdown", NULL, NULL, NULL, FALSE), fp)
        /\ metaFile' = IF f.err \/ fp.at = "meta" THEN metaFile ELSE MetadataContent

\* the process stops between two operations and `new LSMTree(...)` is run on
\* the same data directory; loadFromDisk has finished
Reopen ==
    /\ nops < MaxOps
    /\ memTable' = LoadedMemTable(walFile)
    /\ \E s \in LoadedSSTables(sstFiles) :
          ssTables' = [i \in DOMAIN s |-> SSTable_loadFromDisk(sstFiles[s[i]])]
    /\ Step(Op("reopen", NULL, NULL, NULL, FALSE))
    /\ UNCHANGED <<walFile, sstFiles, metaFile, memTableMaxSize, maxSSTables, now, faults,
                   asyncVars>>

\* the operations, put called with a value, every file-system call succeeding
Next ==
    \/ Tick
    \/ \E k \in Keys, v \in Values, ttl \in Ttls : Put(k, v, ttl, NoFault)
    \/ \E k \in Keys : Delete(k, NoFault)
    \/ \E k \in Keys : Get(k)
    \/ List
    \/ Flush(NoFault)
    \/ Compact(NoFault)
    \/ Shutdown(NoFault)
    \/ Reopen

Spec == Init /\ [][Next]_vars

\* the operations, file-system calls failing within the budget MaxFaults
NextIO ==
    \/ Tick
    \/ \E k \in Keys, v \in Values, ttl \in Ttls, fp \in FaultPoints :
          Put(k, v, ttl, fp)
    \/ \E k \in Keys, fp \in FaultPoints : Delete(k, fp)
    \/ \E k \in Keys : Get(k)
    \/ List
    \/ \E fp \in FaultPoints : Flush(fp)
    \/ \E fp \in FaultPoints : Compact(fp)
    \/ \E fp \in FaultPoints : Shutdown(fp)
    \/ Reopen

SpecIO == Init /\ [][NextIO]_vars

\* the requests the handlers of POST /api/cache and PUT /api/cache/:key pass
\* on to cache.put: they reject `value === undefined` only, so the value of
\* a write may be null
NextHttp ==
    \/ Next
    \/ \E k \in Keys, ttl \in Ttls : Put(k, NULL, ttl, NoFault)

SpecHttp == Init /\ [][NextHttp]_vars

\* a file of the data directory is damaged, or a write of a segment file is
\* torn: sstable_<id>.json is there and cannot be parsed
Damage(id) ==
    /\ faults < MaxFaults
    /\ faults' = faults + 1
    /\ sstFiles' = MapSet(sstFiles, id, Unparsable)
    /\ UNCHANGED <<memTable, ssTables, walFile, metaFile, memTableMaxSize, maxSSTables,
                   now, nops, last, prev, asyncVars>>

\* writes without ttl, flushes and reopens, every file-system call
\* succeeding, and segment files getting damaged within the budget MaxFaults
NextDamage ==
    \/ \E k \in Keys, v \in Values : Put(k, v, NULL, NoFault)
    \/ \E k \in Keys : Delete(k, NoFault)
    \/ Flush(NoFault)
    \/ Reopen
    \/ \E id \in (DOMAIN sstFiles) \cup {FreshId(EngineState)} : Damage(id)

SpecDamage == Init /\ [][NextDamage]_vars

\* ------------------------------------------- put and delete, await by await
\* A suspended call: its number (id), the operation (op), the await it is
\* suspended at (pc), the return value of MemTable.put (flush), the entries
\* its pending writeFile of wal.json carries (buf) and the SSTable its pending
\* saveToDisk carries (sst).
\*   pc = "wal"   await this.saveWAL() of put / delete
\*   pc = "sst"   await ssTable.saveToDisk() of flush
\*   pc = "wal2"  await this.saveWAL() of flush
\*   pc = "csst"  await compactedSSTable.saveToDisk() of compact
NoSSTable == [data |-> EmptyMap, createdAt |-> NULL, id |-> NULL]

\* an identifier no file, no SSTable and no pending saveToDisk has
FreshIdAsync ==
    LET used == (DOMAIN sstFiles) \cup {ssTables[i].id : i \in 1..Len(ssTables)}
                    \cup {c.sst.id : c \in calls}
    IN  CHOOSE n \in 1..(Cardinality(used) + 1) : n \notin used

\* the call c moves on to the state d, or returns
Suspend(c, d) == calls' = (calls \ {c}) \cup {d}

Return(c) == calls' = calls \ {c}

\* put, up to its first await: MemTable.put, then saveWAL serializes the
\* MemTable and calls writeFile
PutBegin(key, value, ttl) ==
    /\ nops < MaxOps
    /\ memTable' = MemTable_put(memTable, key, value, ttl, now)
    /\ calls' = calls \cup
          {[id |-> nops + 1, op |-> "put", pc |-> "wal",
            flush |-> MemTable_full(memTable', memTableMaxSize),
            buf |-> MemTable_toJSON(memTable'), sst |-> NoSSTable]}
    /\ Step(Op("put", key, value, ttl, FALSE))
    /\ UNCHANGED <<ssTables, walFile, sstFiles, metaFile, memTableMaxSize,
                   maxSSTables, now, faults, loading>>

\* delete, up to its first await
DeleteBegin(key) ==
    /\ nops < MaxOps
    /\ memTable' = MemTable_put(memTable, key, NULL, NULL, now)
    /\ calls' = calls \cup
          {[id |-> nops + 1, op |-> "delete", pc |-> "wal", flush |-> FALSE,
            buf |-> MemTable_toJSON(memTable'), sst |-> NoSSTable]}
    /\ Step(Op("delete", key, NULL, NULL, FALSE))
    /\ UNCHANGED <<ssTables, walFile, sstFiles, metaFile, memTableMaxSize,
                   maxSSTables, now, faults, loading>>

\* the writeFile of wal.json is done and put / delete resumes: delete returns;
\* put returns, or enters flush, which returns on an empty MemTable or else
\* copies the MemTable into a new SSTable and awaits its saveToDisk
WalWritten(c) ==
    /\ c.pc = "wal"
    /\ walFile' = [exists |-> TRUE, memTable |-> c.buf]
    /\ IF c.flush /\ memTable # EmptyMap
       THEN Suspend(c, [c EXCEPT !.pc = "sst", !.buf = {},
                                 !.sst = NewSSTable(memTable, now, FreshIdAsync)])
       ELSE Return(c)
    /\ UNCHANGED <<memTable, ssTables, sstFiles, metaFile, memTableMaxSize,
                   maxSSTables, now, faults, nops, last, prev, loading>>

\* saveToDisk of flush is done: push, clear, and saveWAL serializes the
\* MemTable and calls writeFile
SSTableSaved(c) ==
    /\ c.pc = "sst"
    /\ sstFiles' = MapSet(sstFiles, c.sst.id, SSTable_fileContent(c.sst))
    /\ ssTables' = Append(ssTables, c.sst)
    /\ memTable' = EmptyMap
    /\ Suspend(c, [c EXCEPT !.pc = "wal2", !.buf = MemTable_toJSON(memTable'),
                            !.sst = NoSSTable])
    /\ UNCHANGED <<walFile, metaFile, memTableMaxSize, maxSSTables, now, faults,
                   nops, last, prev, loading>>

\* the writeFile of wal.json of flush is done: flush returns, or calls
\* compact, which returns on one SSTable or else merges, unlinks the files
\* of this.ssTables (the awaits of this loop are run in one step), creates
\* the compacted SSTable and awaits its saveToDisk
WalCleared(c) ==
    /\ c.pc = "wal2"
    /\ walFile' = [exists |-> TRUE, memTable |-> c.buf]
    /\ IF TooManySSTables(EngineState, maxSSTables) /\ Len(ssTables) > 1
       THEN /\ sstFiles' = CompactUnlink(ssTables, sstFiles, Len(ssTables), NoFault).files
            /\ Suspend(c, [c EXCEPT !.pc = "csst",
                  !.sst = NewSSTable(CompactMerge(ssTables, Len(ssTables), now),
                                     now, FreshIdAsync)])
       ELSE /\ Return(c)
            /\ UNCHANGED sstFiles
    /\ UNCHANGED <<memTable, ssTables, metaFile, memTableMaxSize, maxSSTables, now,
                   faults, nops, last, prev, loading>>

\* saveToDisk of compact is done: this.ssTables = [compactedSSTable]
CompactedSaved(c) ==
    /\ c.pc = "csst"
    /\ sstFiles' = MapSet(sstFiles, c.sst.id, SSTable_fileContent(c.sst))
    /\ ssTables' = <<c.sst>>
    /\ Return(c)
    /\ UNCHANGED <<memTable, walFile, metaFile, memTableMaxSize, maxSSTables, now,
                   faults, nops, last, prev, loading>>

\* the handlers of put and delete interleaving at their awaits, as the HTTP
\* server lets them; the writes carry no ttl and the clock stands still, so
\* that no entry expires
NextCalls ==
    \/ \E k \in Keys, v \in Values : PutBegin(k, v, NULL)
    \/ \E k \in Keys : DeleteBegin(k)
    \/ \E c \in calls : WalWritten(c)
    \/ \E c \in calls : SSTableSaved(c)
    \/ \E c \in calls : WalCleared(c)
    \/ \E c \in calls : CompactedSaved(c)

SpecCalls == Init /\ [][NextCalls]_vars

\* ------------------------------------------- recovery, await by await
\* this.ssTables.sort((a, b) => a.createdAt - b.createdAt), a stable sort
RECURSIVE SortByCreatedAt(_)
SortByCreatedAt(q) ==
    IF q = <<>> THEN <<>>
    ELSE LET r == SortByCreatedAt(SubSeq(q, 1, Len(q) - 1))
             x == q[Len(q)]
             n == Cardinality({i \in 1..Len(r) : r[i].createdAt <= x.createdAt})
         IN  SubSeq(r, 1, n) \o <<x>> \o SubSeq(r, n + 1, Len(r))

\* the process stops, the calls in flight with it, and `new LSMTree(...)` is
\* run on the same data directory: the constructor returns with an empty
\* MemTable and no SSTable, loadFromDisk suspended at its first await
Construct ==
    /\ nops < MaxOps
    /\ memTable' = EmptyMap
    /\ ssTables' = <<>>
    /\ calls' = {}
    /\ loading' = "wal"
    /\ Step(Op("construct", NULL, NULL, NULL, FALSE))
    /\ UNCHANGED <<walFile, sstFiles, metaFile, memTableMaxSize, maxSSTables, now, faults>>

\* loadFromDisk resumes with wal.json read: this.memTable.fromJSON replaces
\* the Map
WalLoaded ==
    /\ loading = "wal"
    /\ memTable' = IF walFile.exists THEN MemTable_fromJSON(walFile.memTable)
                   ELSE memTable
    /\ loading' = "sst"
    /\ UNCHANGED <<ssTables, walFile, sstFiles, metaFile, memTableMaxSize, maxSSTables,
                   now, faults, nops, last, prev, calls>>

\* loadFromDisk resumes with the directory read: the SSTables of the files
\* are pushed onto this.ssTables (the awaits of this loop are run in one
\* step) and the array is sorted
SSTablesLoaded ==
    /\ loading = "sst"
    /\ \E s \in LoadedSSTables(sstFiles) :
          ssTables' = SortByCreatedAt(
              ssTables \o [i \in DOMAIN s |-> SSTable_loadFromDisk(sstFiles[s[i]])])
    /\ loading' = "done"
    /\ UNCHANGED <<memTable, walFile, sstFiles, metaFile, memTableMaxSize, maxSSTables,
                   now, faults, nops, last, prev, calls>>

\* the same with the process stopping and restarting, the engine being used
\* while loadFromDisk runs
NextAsync ==
    \/ NextCalls
    \/ Construct
    \/ WalLoaded
    \/ SSTablesLoaded

SpecAsync == Init /\ [][NextAsync]_vars

\* ------------------------------------------------------- what a reader sees
\* the entry cache.get(key) returns now (NoEntry for null)
GetEntry(key) == LSMTree_get(EngineState, key, now).entry

\* the array cache.getAllEntries() returns now
ListEntries == LSMTree_getAllEntries(EngineState, now).entries

\* The tiers from the newest to the oldest: the MemTable, then the SSTables
\* from the last to the first. Tier 0 is the MemTable, tier i the SSTable
\* ssTables[Len(ssTables) + 1 - i].
TierData(i) == IF i = 0 THEN memTable ELSE ssTables[Len(ssTables) + 1 - i].data

TiersHolding(key) == {i \in 0..Len(ssTables) : key \in DOMAIN TierData(i)}

\* the entry of the newest tier that holds key (NoEntry when none does)
NewestEntry(key) ==
    IF TiersHolding(key) = {} THEN NoEntry
    ELSE LET i == CHOOSE j \in TiersHolding(key) : \A h \in TiersHolding(key) : j <= h
         IN  TierData(i)[key]

\* an entry that is neither a tombstone nor expired
Live(entry) == entry # NoEntry /\ entry.value # NULL /\ ~Expired(entry, now)

\* the writing operation just done is a step of the named kind
Did(name) == last'.op = name /\ nops' = nops + 1

\* ------------------------------------------------------------------ C1
\* C1: get(k) is decided by the newest tier that holds k (MemTable first, then
\* the segments from newest to oldest): it returns that tier's entry when the
\* entry is live, and a miss when that entry is expired or is a tombstone.
C1_GetDecidedByNewestTier ==
    \A k \in Keys :
        GetEntry(k) = (IF Live(NewestEntry(k)) THEN NewestEntry(k) ELSE NoEntry)

\* ------------------------------------------------------------------ C2
\* C2: put(k,v) followed by delete(k) followed by get(k) yields a miss: no
\* entry is returned.
C2_PutDeleteGetMisses ==
    (last.op = "delete" /\ prev.op = "put" /\ prev.key = last.key)
        => GetEntry(last.key) = NoEntry

\* ------------------------------------------------------------------ C3
\* the entry the last put wrote has not expired
LastPutUnexpired == last.ttl = NULL \/ now <= last.t + last.ttl

\* C3: after put(k,v2), whatever was written to k before and whether or not
\* the put flushed or compacted, get(k) returns v2 (as long as the ttl of
\* that put has not run out).
C3_GetSeesLastPut ==
    (last.op = "put" /\ last.value # NULL /\ LastPutUnexpired)
        => GetEntry(last.key).value = last.value

\* C3's case: put(k,v1), then put(k,v2) with v2 # v1, the first value sealed
\* in a segment, and get(k) returns v2
C3_Witness ==
    /\ last.op = "put" /\ prev.op = "put" /\ prev.key = last.key
    /\ last.value # NULL
    /\ \E i \in 1..Len(ssTables) :
          /\ last.key \in DOMAIN ssTables[i].data
          /\ ssTables[i].data[last.key].value \notin {NULL, last.value}
    /\ GetEntry(last.key).value = last.value

\* ------------------------------------------------------------------ C4
\* the lookup of tier i alone: MemTable.get for the MemTable, SSTable.get for
\* an SSTable
TierLookup(i, key) ==
    IF i = 0 THEN MemTable_get(memTable, key, now).entry
    ELSE SSTable_get(ssTables[Len(ssTables) + 1 - i], key, now)

\* the (tier, key) pairs of the stored entries that carry an expiry
StoredWithTtl ==
    {p \in (0..Len(ssTables)) \X Keys :
        p[2] \in DOMAIN TierData(p[1]) /\ TierData(p[1])[p[2]].expiresAt # NULL}

\* the entry put(key, value, ttl) stores at time t: expiresAt = t + ttl
LastPutEntry ==
    [value |-> last.value,
     expiresAt |-> IF last.ttl # NULL THEN last.t + last.ttl ELSE NULL,
     timestamp |-> last.t]

\* C4 as stated: an entry put at t with ttl > 0 is returned by get and
\* included in list only at instants now < t + ttl; at every instant
\* now >= t + ttl the MemTable lookup and the segment lookup treat it as absent.
C4_AbsentFromExpiryInstant ==
    /\ \A p \in StoredWithTtl :
          LET e == TierData(p[1])[p[2]]
          IN  TierLookup(p[1], p[2]) = (IF now < e.expiresAt THEN e ELSE NoEntry)
    /\ \A k \in Keys : GetEntry(k).expiresAt # NULL => now < GetEntry(k).expiresAt
    /\ \A x \in ListEntries : x.expiresAt # NULL => now < x.expiresAt

\* C4 (amended): put at t with ttl > 0 stores expires_at = t + ttl; the entry is
\* returned by get and included in list only at instants now <= expires_at, the
\* instant expires_at itself included; at every instant now > expires_at the
\* MemTable lookup and the segment lookup treat it as absent.
C4_LiveThroughExpiresAt ==
    /\ (last.op = "put" /\ LastPutUnexpired) => NewestEntry(last.key) = LastPutEntry
    /\ \A p \in StoredWithTtl :
          LET e == TierData(p[1])[p[2]]
          IN  TierLookup(p[1], p[2]) = (IF now <= e.expiresAt THEN e ELSE NoEntry)
    /\ \A k \in Keys : GetEntry(k).expiresAt # NULL => now <= GetEntry(k).expiresAt
    /\ \A x \in ListEntries : x.expiresAt # NULL => now <= x.expiresAt

\* C4's case: the MemTable holds an entry at the very instant of its expires_at
\* (get returns it, list includes it) while a segment holds an entry whose
\* expires_at has passed (its lookup misses)
C4_Witness ==
    /\ \E k \in DOMAIN memTable :
          /\ memTable[k].expiresAt = now
          /\ GetEntry(k) = memTable[k]
          /\ \E x \in ListEntries : x.key = k /\ x.expiresAt = now
    /\ \E i \in 1..Len(ssTables) : \E k \in DOMAIN ssTables[i].data :
          /\ ssTables[i].data[k].expiresAt # NULL
          /\ ssTables[i].data[k].expiresAt < now
          /\ SSTable_get(ssTables[i], k, now) = NoEntry

\* ------------------------------------------------------------------ C5
\* C5: list() returns at most one entry per key and no returned entry is a
\* tombstone or expired; a key whose newest write is a delete is absent from
\* list(), whether the tombstone sits in the MemTable or in a segment.
C5_ListLiveOnePerKey ==
    /\ \A x \in ListEntries : x.value # NULL /\ ~Expired(x, now)
    /\ \A x, y \in ListEntries : x.key = y.key => x = y
    /\ \A k \in Keys :
          (NewestEntry(k) # NoEntry /\ NewestEntry(k).value = NULL)
              => \A x \in ListEntries : x.key # k

\* ------------------------------------------------------------------ C6
\* no stored entry, in the MemTable, in the WAL or in a segment, has run out
\* of its ttl
NoTtlElapsed ==
    /\ \A k \in DOMAIN memTable : ~Expired(memTable[k], now)
    /\ \A p \in walFile.memTable : ~Expired(p[2], now)
    /\ \A i \in 1..Len(ssTables) : \A k \in DOMAIN ssTables[i].data :
          ~Expired(ssTables[i].data[k], now)

\* C6: when the process stops between two operations and a new engine is
\* opened on the same data directory (no ttl having run out), then after
\* recovery get(k) returns for every key the answer it returned before the
\* stop, and the recovered MemTable holds exactly the unflushed entries, those
\* the MemTable held at the stop.
C6_ReopenSameAnswers ==
    [][(Did("reopen") /\ NoTtlElapsed)
          => /\ \A k \in Keys : GetEntry(k)' = GetEntry(k)
             /\ memTable' = memTable]_vars

\* ------------------------------------------------------------------ C7
\* the [key, entry] pair the last put or delete wrote (a delete writes the
\* tombstone: value and expiresAt null)
LastWritten == <<last.key, LastPutEntry>>

\* the pair is on disk: in wal.json or in some sstable_<id>.json
OnDisk(pair) ==
    \/ walFile.exists /\ pair \in walFile.memTable
    \/ \E id \in DOMAIN sstFiles : pair \in sstFiles[id].entries

\* C7: a put or delete that returned without error has its mutation on disk,
\* in the WAL or in a persisted segment; a put or delete whose WAL rewrite or
\* flush failed has reported the error instead.
C7_AckedOnlyIfOnDisk ==
    (last.op \in {"put", "delete"} /\ ~last.err) => OnDisk(LastWritten)

\* ------------------------------------------------------------------ C8
\* C8: between any two engine operations the entry set stored in wal.json, if
\* the file is present, equals the contents of the MemTable, also after a get
\* or a list that removed an expired entry from the MemTable.
C8_WalEqualsMemTable ==
    walFile.exists => walFile.memTable = MemTable_toJSON(memTable)

\* ------------------------------------------------------------------ C9
\* the MemTable a step seals when it flushes: for a put, the MemTable with
\* the put applied
SealedInStep ==
    IF last'.op = "put"
    THEN MemTable_put(memTable, last'.key, last'.value, last'.ttl, now)
    ELSE memTable

\* the step is a flush (asked for, of shutdown, or of a put that filled the
\* MemTable) that seals a segment
FlushInStep ==
    /\ nops' = nops + 1
    /\ \/ last'.op \in {"flush", "shutdown"}
       \/ last'.op = "put" /\ MemTable_full(SealedInStep, memTableMaxSize)
    /\ SealedInStep # EmptyMap

\* the step runs compact: asked for, or at the end of a flush that leaves
\* more than maxSSTables segments
CompactionInStep ==
    \/ Did("compact")
    \/ FlushInStep /\ Len(ssTables) + 1 > maxSSTables

\* the Maps of the segments compact starts from, oldest first
CompactionInputs ==
    LET datas == [i \in 1..Len(ssTables) |-> ssTables[i].data]
    IN  IF last'.op = "compact" THEN datas ELSE Append(datas, SealedInStep)

\* last writer wins: for every key of the inputs the entry of the newest input
\* that holds the key
LastWriterWins(datas) ==
    LET holders(k) == {i \in 1..Len(datas) : k \in DOMAIN datas[i]}
        newest(k)  == CHOOSE i \in holders(k) : \A j \in holders(k) : j <= i
    IN  [k \in UNION {DOMAIN datas[i] : i \in 1..Len(datas)} |-> datas[newest(k)][k]]

\* then the filter: tombstones and entries expired at t are dropped
LiveOnly(m, t) ==
    [k \in {x \in DOMAIN m : m[x].value # NULL /\ ~Expired(m[x], t)} |-> m[k]]

\* C9: compaction is last-writer-wins followed by filtering: the compacted
\* segment holds, for every key, the entry of the newest input segment that
\* contains the key, unless that entry is a tombstone or expired, and then the
\* key is absent from the compacted segment (so a key put, flushed, deleted
\* and flushed again is in no segment after compaction).
C9_CompactionLastWriterWins ==
    [][(CompactionInStep /\ Len(CompactionInputs) >= 2)
          => /\ Len(ssTables') = 1
             /\ ssTables'[1].data = LiveOnly(LastWriterWins(CompactionInputs), now)]_vars

\* ------------------------------------------------------------------ C10
\* C10: after a compaction that started from two or more segments,
\* this.ssTables has exactly one segment, and that segment holds no tombstone
\* and no entry whose expiry had passed at compaction time; a compaction
\* started from no or one segment changes nothing.
C10_CompactionLeavesOneCleanSegment ==
    [][/\ (CompactionInStep /\ Len(CompactionInputs) >= 2)
            => /\ Len(ssTables') = 1
               /\ \A k \in DOMAIN ssTables'[1].data :
                     /\ ssTables'[1].data[k].value # NULL
                     /\ ~Expired(ssTables'[1].data[k], now)
       /\ (Did("compact") /\ Len(ssTables) <= 1)
            => UNCHANGED <<memTable, ssTables, walFile, sstFiles, metaFile>>]_vars

\* C10's case: a segment exists, delete(j) leaves a tombstone in the MemTable,
\* put(k,v) fills the MemTable, flushes it and exceeds maxSSTables; the
\* compaction started from two segments and left one, with k and without
\* the tombstone of j
C10_Witness ==
    /\ last.op = "put" /\ prev.op = "delete" /\ prev.key # last.key
    /\ last.n = 1
    /\ memTable = EmptyMap
    /\ Len(ssTables) = 1
    /\ DOMAIN ssTables[1].data = {last.key}
    /\ DOMAIN sstFiles = {ssTables[1].id}

\* ------------------------------------------------------------------ C11
\* C11: after every completed put or delete the MemTable holds fewer than
\* memTableMaxSize entries: a delete, like a put, flushes the MemTable that
\* its insert has made full.
C11_MemTableBelowMaxSize ==
    (last.op \in {"put", "delete"} /\ ~last.err)
        => Cardinality(DOMAIN memTable) < memTableMaxSize

\* ------------------------------------------------------------------ C12
\* the step removes a segment file from the data directory, which compact
\* alone does
SegmentDiscarded == \E id \in DOMAIN sstFiles : id \notin DOMAIN sstFiles'

\* the step is a flush that raises the number of segments above maxSSTables
FlushExceedsMax == FlushInStep /\ Len(ssTables) + 1 > maxSSTables

\* C12: with no I/O failure, after every completed put the number of segments
\* is at most maxSSTables; a flush that raises the count above maxSSTables
\* compacts down to one segment (one file on disk); and, compact not being
\* called by the user, segments are compacted in no other step than such a
\* flush.
C12_CompactionOnlyAboveMax ==
    [][/\ Did("put") => Len(ssTables') <= maxSSTables
       /\ FlushExceedsMax
            => Len(ssTables') = 1 /\ DOMAIN sstFiles' = {ssTables'[1].id}
       /\ ~Did("compact") => (SegmentDiscarded <=> FlushExceedsMax)]_vars

\* C12's case: maxSSTables = 2, the third flushing put finds two segments,
\* raises the count to three and compaction leaves one segment, one file
C12_Witness ==
    /\ last.op = "put" /\ ~last.err
    /\ maxSSTables = 2 /\ last.n = 2
    /\ memTable = EmptyMap
    /\ Len(ssTables) = 1
    /\ DOMAIN sstFiles = {ssTables[1].id}
    /\ last.key \in DOMAIN ssTables[1].data

\* ------------------------------------------------------------------ C13
\* the engine states loadFromDisk can restore from a data directory: the
\* MemTable from the WAL, the segments in any order readdir and the sort by
\* createdAt allow
Recovered(wal, files) ==
    {[memTable |-> LoadedMemTable(wal),
      ssTables |-> [i \in DOMAIN s |-> SSTable_loadFromDisk(files[s[i]])],
      wal      |-> wal,
      files    |-> files] : s \in LoadedSSTables(files)}

\* C13: after shutdown has returned (no I/O failure) the MemTable is empty,
\* the WAL on disk holds no entries, every entry that was in the MemTable is
\* in a segment file, and an engine reopened on the data directory answers
\* get(k) as before the shutdown, for every key.
C13_ShutdownLeavesAllInSegments ==
    [][Did("shutdown")
          => /\ memTable' = EmptyMap
             /\ walFile'.exists => walFile'.memTable = {}
             /\ \A k \in DOMAIN memTable : \E id \in DOMAIN sstFiles' :
                   <<k, memTable[k]>> \in sstFiles'[id].entries
             /\ \A R \in Recovered(walFile', sstFiles') : \A k \in Keys :
                   LSMTree_get(R, k, now).entry = GetEntry(k)]_vars

\* ------------------------------------------------------------------ C14
\* the number of entries the engine holds, MemTable and segments together
StoredEntries ==
    LET RECURSIVE Sum(_)
        Sum(i) == IF i = 0 THEN 0
                  ELSE Cardinality(DOMAIN ssTables[i].data) + Sum(i - 1)
    IN  Cardinality(DOMAIN memTable) + Sum(Len(ssTables))

\* C14: put and delete calls being in flight at once, each suspended at any
\* of its awaits, no acknowledged write is lost: once all calls have
\* completed get returns for the key written last the value written last
\* (none for a delete), and each entry was sealed into at most one flush,
\* so the engine holds no more entries than writes were made.
C14_MutatorsAtomic ==
    (calls = {} /\ last.op \in {"put", "delete"})
        => /\ GetEntry(last.key).value = last.value
           /\ StoredEntries <= nops

\* ------------------------------------------------------------------ C15
\* C15: recovery is complete when the construction of the engine returns:
\* a get issued right after it sees the contents of the WAL and of the
\* segment files, and what a put issued right after it wrote to the MemTable
\* is neither overwritten nor dropped by the WAL being loaded afterwards.
C15_RecoveredAtConstruction ==
    [][/\ Did("construct")
            => /\ memTable' = LoadedMemTable(walFile)
               /\ ssTables' \in {R.ssTables : R \in Recovered(walFile, sstFiles)}
       /\ (loading = "wal" /\ loading' = "sst")
            => \A k \in DOMAIN memTable :
                  k \in DOMAIN memTable' /\ memTable'[k] = memTable[k]]_vars

\* ------------------------------------------------------------------ C16
\* C16: write-ahead ordering: the WAL record of a write is on disk before the
\* write is applied to the MemTable, so at no instant does the MemTable hold
\* an entry that wal.json does not hold.
C16_WalBeforeMemTable ==
    \A k \in DOMAIN memTable :
        walFile.exists /\ <<k, memTable[k]>> \in walFile.memTable

\* ------------------------------------------------------------------ C17
\* C17: compaction persists the merged segment before it discards any input
\* segment file: when persisting the merged segment fails (as when the
\* process stops inside compaction) the segment files that were on disk are
\* still there, unchanged, and a recovery from the data directory answers
\* get(k) for every key as the engine did before the compaction started.
C17_InputsKeptUntilMergedSaved ==
    [][(nops' = nops + 1 /\ last'.fault.at = "csst")
          => /\ \A id \in DOMAIN sstFiles :
                   id \in DOMAIN sstFiles' /\ sstFiles'[id] = sstFiles[id]
             /\ Did("compact")
                   => \A R \in Recovered(walFile', sstFiles') : \A k \in Keys :
                         LSMTree_get(R, k, now).entry = GetEntry(k)]_vars

\* ------------------------------------------------------------------ C18
\* the engine as flush finds it in a step: for a put, after MemTable.put and
\* saveWAL
BeforeFlush ==
    IF last'.op = "put"
    THEN LSMTree_saveWAL([EngineState EXCEPT !.memTable = SealedInStep], TRUE)
    ELSE EngineState

\* the data directory at the awaits of flush, where the process may stop:
\* before saveToDisk has written the segment, after it and before saveWAL
\* has rewritten wal.json, and after that
FlushCrashDisks(S, t) ==
    LET ssTable == NewSSTable(S.memTable, t, FreshId(S))
        saved   == MapSet(S.files, ssTable.id, SSTable_fileContent(ssTable))
    IN  {[wal |-> S.wal, files |-> S.files],
         [wal |-> S.wal, files |-> saved],
         [wal |-> [exists |-> TRUE, memTable |-> MemTable_toJSON(EmptyMap)],
          files |-> saved]}

\* C18: wherever the process stops inside a flush, recovery restores a state
\* in which get(k) returns for every key the answer it returned just before
\* the flush began; a key held both by the new segment and by the replayed
\* MemTable is served from the MemTable.
C18_CrashInFlushRecovers ==
    [][FlushInStep
          => \A D \in FlushCrashDisks(BeforeFlush, now) :
             \A R \in Recovered(D.wal, D.files) :
             \A k \in Keys :
                /\ LSMTree_get(R, k, now).entry = LSMTree_get(BeforeFlush, k, now).entry
                /\ (k \in DOMAIN R.memTable /\ ~Expired(R.memTable[k], now))
                      => LSMTree_get(R, k, now).entry = R.memTable[k]]_vars

\* ------------------------------------------------------------------ C19
\* C19: when persisting the new segment fails during the flush of a put, the
\* error reaches the caller of put and the engine is as before the flush:
\* the MemTable holds all its entries, the one just put included, the
\* segment list and the segment files are unchanged, and the WAL holds the
\* contents of the MemTable.
C19_FailedFlushKeepsMemTable ==
    [][(Did("put") /\ last'.fault.at \in {"sst", "wal+sst"})
          => /\ last'.err
             /\ memTable' = SealedInStep
             /\ ssTables' = ssTables
             /\ sstFiles' = sstFiles
             /\ walFile' = [exists |-> TRUE, memTable |-> MemTable_toJSON(memTable')]]_vars

\* ------------------------------------------------------------------ C20
\* C20: an error inside compaction (discarding an input file or persisting
\* the merged segment fails) aborts the compaction but fails neither the
\* flush that triggered it nor the put that caused the flush: the put
\* returns success, the MemTable flushed.
C20_CompactionErrorNotSurfaced ==
    [][(Did("put") /\ last'.fault.at \in {"unlink", "csst"})
          => ~last'.err /\ memTable' = EmptyMap]_vars

\* ------------------------------------------------------------------ C21
\* C21: shutdown never propagates an error to its caller: when its flush
\* (the write of the segment, or the compaction) or its write of the
\* metadata fails, the failure is only logged and shutdown returns normally.
C21_ShutdownNeverThrows ==
    [][Did("shutdown") => ~last'.err]_vars

\* ------------------------------------------------------------------ C22
\* two segments of the running engine carry the same createdAt
CreatedAtTie ==
    \E i, j \in 1..Len(ssTables) :
        i # j /\ ssTables[i].createdAt = ssTables[j].createdAt

\* C22: the shadowing order of the segments is the same before and after a
\* reopen: the recovered list is sorted by createdAt ascending, any two
\* segments, also two that share their createdAt, keep the relative order
\* they had in the running engine, and so the lookup through the segments
\* returns for every key the same entry.
C22_ReopenKeepsSegmentOrder ==
    [][Did("reopen")
          => /\ \A i, j \in 1..Len(ssTables') :
                   i < j => ssTables'[i].createdAt <= ssTables'[j].createdAt
             /\ \A i, j \in 1..Len(ssTables) : \A a, b \in 1..Len(ssTables') :
                   (i < j /\ ssTables'[a].id = ssTables[i].id
                          /\ ssTables'[b].id = ssTables[j].id) => a < b
             /\ \A k \in Keys :
                   GetFromSSTables(ssTables', Len(ssTables'), k, now)
                       = GetFromSSTables(ssTables, Len(ssTables), k, now)]_vars

\* ------------------------------------------------------------------ C23
\* C23: recovery removes no file from the data directory; a segment file
\* that cannot be parsed is skipped and left on disk unchanged, and every
\* other segment and the WAL are still loaded.
C23_RecoveryKeepsFiles ==
    [][Did("reopen")
          => /\ sstFiles' = sstFiles /\ walFile' = walFile /\ metaFile' = metaFile
             /\ memTable' = LoadedMemTable(walFile)
             /\ Len(ssTables')
                   = Cardinality({id \in DOMAIN sstFiles : sstFiles[id] # Unparsable})
             /\ \A id \in DOMAIN sstFiles :
                   IF sstFiles[id] = Unparsable
                   THEN \A i \in 1..Len(ssTables') : ssTables'[i].id # id
                   ELSE \E i \in 1..Len(ssTables') :
                           ssTables'[i] = SSTable_loadFromDisk(sstFiles[id])]_vars

\* C23's case: a reopen on a data directory with an unparsable segment file,
\* a parsable one and a WAL with an entry: the file is still there, the
\* other segment and the entry of the WAL are loaded
C23_Witness ==
    /\ last.op = "reopen"
    /\ \E id \in DOMAIN sstFiles : sstFiles[id] = Unparsable
    /\ Len(ssTables) = 1 /\ ssTables[1].id \in DOMAIN sstFiles
    /\ ssTables[1].data # EmptyMap
    /\ memTable # EmptyMap
    /\ memTable = LoadedMemTable(walFile)

\* ------------------------------------------------------------------ C24
\* the step ends with the MemTable empty and the WAL holding no entries
EndsFlushed ==
    /\ memTable' = EmptyMap
    /\ walFile' = [exists |-> TRUE, memTable |-> {}]

\* every key get returned a value for when the flush began is returned with
\* the same entry after the step
StillReadable ==
    \A k \in Keys :
        LET e == LSMTree_get(BeforeFlush, k, now).entry
        IN  e.value # NULL => GetEntry(k)' = e

\* the step has appended, as the newest segment, a segment with the mapping
\* of the MemTable and its file, and has left the segments before it alone
SealedAppended ==
    /\ Len(ssTables') = Len(ssTables) + 1
    /\ ssTables'[Len(ssTables')].data = SealedInStep
    /\ ssTables'[Len(ssTables')].createdAt = now
    /\ \A i \in 1..Len(ssTables) : ssTables'[i] = ssTables[i]
    /\ sstFiles' = MapSet(sstFiles, ssTables'[Len(ssTables')].id,
                          SSTable_fileContent(ssTables'[Len(ssTables')]))

\* C24 as stated: a flush of a non-empty MemTable appends, as the newest
\* segment, a segment whose mapping equals the MemTable's at the moment of
\* the flush, leaves every existing segment unchanged, and ends with the
\* MemTable empty and the WAL holding no entries; every key readable before
\* the flush is readable with the same value after it.
C24_FlushAppendsSegment ==
    [][FlushInStep => SealedAppended /\ EndsFlushed /\ StillReadable]_vars

\* C24 (amended): a flush of a non-empty MemTable ends with the MemTable
\* empty and the WAL holding no entries, and every key readable before it is
\* readable with the same value after it; when it leaves no more than
\* maxSSTables segments it has appended, as the newest segment, a segment
\* whose mapping equals the MemTable's at the moment of the flush and has
\* left every existing segment unchanged; when it raises the count above
\* maxSSTables the compaction it invokes leaves one merged segment in place
\* of them all.
C24_FlushAppendsUnlessCompacting ==
    [][FlushInStep
          => /\ EndsFlushed
             /\ StillReadable
             /\ IF FlushExceedsMax
                THEN /\ Len(ssTables') = 1
                     /\ ssTables'[1].data
                           = CompactMerge(Append(ssTables, NewSSTable(SealedInStep, now, 0)),
                                          Len(ssTables) + 1, now)
                ELSE SealedAppended]_vars

\* C24's case: a put filled the MemTable, which held a tombstone besides; the
\* flush appended a second segment with both entries to the one that was
\* there; the key of the older segment is still read from it
C24_Witness ==
    /\ last.op = "put" /\ prev.op = "delete" /\ last.n = 1
    /\ memTable = EmptyMap /\ walFile.memTable = {} /\ walFile.exists
    /\ Len(ssTables) = 2
    /\ DOMAIN ssTables[2].data = Keys
    /\ ssTables[2].data[prev.key].value = NULL
    /\ ssTables[2].data[last.key] = LastPutEntry
    /\ GetEntry(last.key) = LastPutEntry

\* ------------------------------------------------------------------ C25
\* C25: the key-to-entry mapping of a segment never changes after the
\* segment is constructed: a segment that is in the list before and after a
\* step has the same entries; get and list, also when their lookups hit
\* expired entries, leave the segment list as it is; and a put or a delete
\* that starts no compaction, with the MemTable clear of its flush, leaves
\* every segment of the list where and as it was.
C25_SegmentsImmutable ==
    [][/\ \A i \in 1..Len(ssTables) : \A j \in 1..Len(ssTables') :
             ssTables'[j].id = ssTables[i].id => ssTables'[j] = ssTables[i]
       /\ (nops' = nops /\ now' = now) => ssTables' = ssTables
       /\ ((Did("put") \/ Did("delete")) /\ ~CompactionInStep)
             => \A i \in 1..Len(ssTables) : ssTables'[i] = ssTables[i]]_vars

\* C25's case: a put with a ttl was sealed in a segment by its flush, a
\* delete of another key followed, the ttl has run out and get misses: the
\* segment still holds the entry of the put
C25_Witness ==
    /\ last.op = "delete" /\ prev.op = "put" /\ last.key # prev.key
    /\ last.n = 1 /\ Len(ssTables) = 1
    /\ prev.key \in DOMAIN ssTables[1].data
    /\ Expired(ssTables[1].data[prev.key], now)
    /\ GetEntry(prev.key) = NoEntry
    /\ DOMAIN memTable = {last.key}

\* ------------------------------------------------------------------ C26
\* C26: flush on an empty MemTable is a no-op: it creates no segment and no
\* segment file, leaves the segment list and the WAL unchanged and starts no
\* compaction; hence a second
\* shutdown right after a first one adds no segment.
C26_FlushOfEmptyIsNoOp ==
    [][/\ ((Did("flush") \/ Did("shutdown")) /\ memTable = EmptyMap)
             => UNCHANGED <<memTable, ssTables, walFile, sstFiles>>
       /\ (Did("shutdown") /\ last.op = "shutdown")
             => UNCHANGED <<ssTables, sstFiles>>]_vars

\* C26's case: a put, a shutdown that flushed it into a segment, and a
\* second shutdown: one segment, one file, as after the first
C26_Witness ==
    /\ last.op = "shutdown" /\ prev.op = "shutdown"
    /\ last.n = 1 /\ Len(ssTables) = 1
    /\ ssTables[1].data # EmptyMap
    /\ DOMAIN sstFiles = {ssTables[1].id}
    /\ memTable = EmptyMap
    /\ walFile.exists /\ walFile.memTable = {}
    /\ metaFile.exists

\* ------------------------------------------------------------------ C27
\* C27: once the put and delete calls that were in flight together have all
\* completed, wal.json holds the contents of the MemTable: the WAL rewrites
\* of overlapping calls cannot leave on disk a snapshot older than the last
\* mutation.
C27_WalIsLastSnapshot ==
    (calls = {} /\ nops > 0)
        => walFile.exists /\ walFile.memTable = MemTable_toJSON(memTable)

\* ------------------------------------------------------------------ C28
\* what getStats reports: diskFiles, the number of sstable_ files in the data
\* directory, and ssTablesCount
DiskFiles == Cardinality(DOMAIN sstFiles)

SSTablesCount == Len(ssTables)

\* C28: with no I/O failure and no corrupt file, whenever no operation is in
\* progress (between two operations run one after the other: puts, deletes,
\* flushes, compactions, reopens) the sstable_ files on disk correspond one
\* to one to the segments of the in-memory list, each file holding the
\* content of its segment, so getStats reports diskFiles equal to
\* ssTablesCount.
C28_FilesMatchSegments ==
    (calls = {} /\ loading = "done")
        => /\ DiskFiles = SSTablesCount
           /\ DOMAIN sstFiles = {ssTables[i].id : i \in 1..Len(ssTables)}
           /\ \A i \in 1..Len(ssTables) :
                 sstFiles[ssTables[i].id] = SSTable_fileContent(ssTables[i])

\* C28's case: two flushing puts, the second compacting the two segments
\* into one, then a reopen: one segment with both keys, its file the only one
C28_Witness ==
    /\ last.op = "reopen" /\ prev.op = "put"
    /\ maxSSTables = 1
    /\ SSTablesCount = 1 /\ DiskFiles = 1
    /\ DOMAIN ssTables[1].data = Keys
    /\ sstFiles[ssTables[1].id] = SSTable_fileContent(ssTables[1])

\* ------------------------------------------------------------------ C29
\* C29: get and list agree in every reachable state: for every key k, list()
\* contains an entry for k with value v exactly when get(k) returns an entry
\* with value v, and contains no entry for k exactly when get(k) is a miss.
C29_GetAndListAgree ==
    \A k \in Keys :
        {x \in ListEntries : x.key = k}
            = (IF GetEntry(k) = NoEntry THEN {} ELSE {WithKey(k, GetEntry(k))})

\* ------------------------------------------------------------------ C30
\* C30: every tombstone stored in the MemTable or in a segment has no expiry
\* (expiresAt null), so that a deletion cannot lapse and let an older value
\* of the key in a segment become readable again; this for every request the
\* HTTP layer accepts, a write whose value is null included.
C30_TombstonesNeverExpire ==
    \A i \in 0..Len(ssTables) : \A k \in DOMAIN TierData(i) :
        TierData(i)[k].value = NULL => TierData(i)[k].expiresAt = NULL

====
